---- MODULE Spec2Model ----
(***************************************************************************)
(* Relay/session core of ascii-terminal-chat: the per-connection handler   *)
(* handle_socket of src/server.rs with its two spawned flows (recv_task,   *)
(* send_task), the shared roster (ServerState.users) and the tokio         *)
(* broadcast channel (ServerState.tx); and the frame codec of src/ascii.rs  *)
(* (AsciiFrame::from_rgb_data, serialize, deserialize, ascii_for_rgb), as   *)
(* functions applied to inputs drawn by CodecInit; the client connection   *)
(* of src/client.rs (ChatClient::connect with its two spawned tasks); and  *)
(* the frame source of src/webcam.rs (WebcamCapture and its generator      *)
(* thread).                                                                *)
(***************************************************************************)
EXTENDS Integers, Sequences, FiniteSets, TLC

\* ------------------------------------------------------------------ bounds
\* Number of connections ever accepted (each gets a fresh Uuid, never reused).
NConn == 2
\* Size of a run: connections accepted plus client messages read.
MaxWork == 4
\* Capacity of the broadcast channel, broadcast::channel(100), scaled down.
ChanCap == 2
\* Number of connections that the client side closes or that break.
MaxCloses == 1

Conns == 1..NConn
Names == {"", "a"}

VARIABLES
    users,      \* ServerState.users: roster, a map id -> UserInfo
    log,        \* every message handed to ServerState.tx.send, in order,
                \* whether or not a receiver exists at that moment
    log2,       \* the same for a twin run that differs only in the id and
                \* username fields clients put into Chat and VideoFrame
    phase,      \* handle_socket's position, per connection
    rpc,        \* recv_task's position, per connection
    spc,        \* send_task's position, per connection
    username,   \* handle_socket's local `username`, moved into recv_task
    snap,       \* recv_task's local `users` (the collected roster values)
    pending,    \* the broadcast receiver `rx`: events queued for it
    lagged,     \* the receiver has lost events it had not yet taken
    out,        \* messages written to the connection's websocket, in order
    sock,       \* the websocket: "open", or "closed" once a read or write failed
    removals,   \* how many times cleanup removed this id from the roster
    msgs,       \* number of client messages read so far
    last,       \* the connection, kind and text or payload of the message
                \* read last
    call,       \* codec: the function called and its arguments
    ret,        \* codec: what the call returned, NoRet until it has
    link,       \* client: the outcome of connect_async
    wtask,      \* client: position of the task writing to the websocket
    rtask,      \* client: position of the task reading from the websocket
    rx_from_app,\* client: number of messages the application has queued
    rx_from_ws, \* client: the application's receive queue (ChatClient.rx)
    notices,    \* client: "System" lines the application has added
    reads,      \* client: number of items the websocket stream has yielded
    cap,        \* webcam: the WebcamCapture: live, dropping or dropped
    gen,        \* webcam: position of the generator thread
    frame_ch,   \* webcam: the bounded(10) frame channel
    shutdown_ch,\* webcam: the bounded(1) shutdown channel
    frame_count,\* webcam: generate_test_pattern's frame_count
    taken,      \* webcam: the frames get_frame has returned, in order
    got         \* webcam: what the last get_frame call returned

vars == <<users, log, log2, phase, rpc, spc, username, snap, pending, lagged,
          out, sock, removals, msgs, last, call, ret, link, wtask, rtask,
          rx_from_app, rx_from_ws, notices, reads, cap, gen, frame_ch,
          shutdown_ch, frame_count, taken, got>>

\* The broadcast channel and the receivers' queues.
chan == <<log, log2, pending, lagged>>

\* What the clients have sent so far.
inp == <<msgs, last>>

\* The state of the relay, and the state of a codec call.
server == <<users, log, log2, phase, rpc, spc, username, snap, pending,
            lagged, out, sock, removals, msgs, last>>
codec == <<call, ret>>

\* The state of a client connection, and the state of a frame source.
client == <<link, wtask, rtask, rx_from_app, rx_from_ws, notices, reads>>
webcam == <<cap, gen, frame_ch, shutdown_ch, frame_count, taken, got>>

\* ---------------------------------------------------------------- protocol
\* protocol.rs Message, as records of one shape (unused fields are blank).
Msg(t, i, n, x, ts, us) ==
    [type |-> t, id |-> i, username |-> n, text |-> x, timestamp |-> ts,
     users |-> us]

Join(i, n) == Msg("Join", i, n, 0, 0, {})
Leave(i) == Msg("Leave", i, "", 0, 0, {})
Chat(i, n, x, ts) == Msg("Chat", i, n, x, ts, {})
VideoFrame(i, n, f) == Msg("VideoFrame", i, n, f, 0, {})
UserList(us) == Msg("UserList", 0, "", 0, 0, us)
ServerInfo == Msg("ServerInfo", 0, "", 0, 0, {})

UserInfo(i, n, t) == [id |-> i, username |-> n, joined_at |-> t]

\* The kinds of content a client may send: a chat text (0); as the payload of
\* a VideoFrame, which is any Vec<u8>, a serialized AsciiFrame (0) or bytes
\* that are none (1).
Payloads(t) == IF t = "VideoFrame" THEN {0, 1} ELSE {0}

\* Whether a payload is one that AsciiFrame::deserialize rejects.
NotAFrame(x) == x % 2 = 1

\* HashMap::insert / remove / values on the roster.
Insert(m, k, v) == [x \in (DOMAIN m) \cup {k} |-> IF x = k THEN v ELSE m[x]]
Remove(m, k) == [x \in (DOMAIN m) \ {k} |-> m[x]]
Values(m) == {m[x] : x \in DOMAIN m}

\* Mutant of Subscribed: the receiver is made when the session's Join has
\* been published, not when the connection is accepted.
SubscribedOnceJoined(c) ==
    /\ phase[c] # "idle" /\ spc[c] # "ended"
    /\ \E i \in DOMAIN log : log[i].type = "Join" /\ log[i].id = c

\* Mutant of Subscribed: a receiver is also handed what was published before
\* its connection was accepted.
SubscribedFromStart(c) == spc[c] # "ended"

\* A receiver exists from tx.subscribe() until send_task, which owns it, ends.
Subscribed(c) == phase[c] # "idle" /\ spc[c] # "ended"

\* A receiver's queue after one more message: the channel keeps the newest
\* ChanCap messages, so a receiver that had not taken the oldest one loses it.
Enqueue(q, e) == IF Len(q) < ChanCap THEN Append(q, e) ELSE Append(Tail(q), e)

\* tx.send: the message goes to every current receiver's queue.
Publish(e, e2) ==
    /\ log' = Append(log, e)
    /\ log2' = Append(log2, e2)
    /\ pending' = [c \in Conns |->
                     IF Subscribed(c) THEN Enqueue(pending[c], e)
                     ELSE pending[c]]
    /\ lagged' = [c \in Conns |->
                    lagged[c] \/ (Subscribed(c) /\ Len(pending[c]) = ChanCap)]

\* SystemTime::now() in seconds: the clock is read once for every message and
\* has advanced by a second each time.
Now == msgs

\* Connections accepted so far.
Accepted == {c \in Conns : phase[c] # "idle"}

\* -------------------------------------------------------------------- Init
ServerInit ==
    /\ users = <<>>
    /\ log = <<>>
    /\ log2 = <<>>
    /\ phase = [c \in Conns |-> "idle"]
    /\ rpc = [c \in Conns |-> "none"]
    /\ spc = [c \in Conns |-> "none"]
    /\ username = [c \in Conns |-> ""]
    /\ snap = [c \in Conns |-> {}]
    /\ pending = [c \in Conns |-> <<>>]
    /\ lagged = [c \in Conns |-> FALSE]
    /\ out = [c \in Conns |-> <<>>]
    /\ sock = [c \in Conns |-> "open"]
    /\ removals = [c \in Conns |-> 0]
    /\ msgs = 0
    /\ last = [conn |-> 0, type |-> "None", text |-> 0]

\* A codec call: the function, whether the build checks integer overflow
\* (debug profile) or wraps (release profile), and the arguments: a byte
\* buffer, a frame's width, height and cells, the mono flag, a luminance.
Call(f, ck, d, w, h, cs, mo, l) ==
    [fn |-> f, checks |-> ck, data |-> d, width |-> w, height |-> h,
     cells |-> cs, mono |-> mo, lum |-> l]

NoCall == Call("none", FALSE, <<>>, 0, 0, <<>>, FALSE, 0)

\* What a call returns: Ok(AsciiFrame { width, height, cells }), an Err, a
\* panic of the thread, or a number.
Ret(st, w, h, cs, v) ==
    [status |-> st, width |-> w, height |-> h, cells |-> cs, value |-> v]

NoRet == Ret("none", 0, 0, <<>>, 0)

\* No codec call.
CodecIdle ==
    /\ call = NoCall
    /\ ret = NoRet

\* The application before UserAction::JoinChat: `client` is None.
ClientInit ==
    /\ link = "none"
    /\ wtask = "none"
    /\ rtask = "none"
    /\ rx_from_app = 0
    /\ rx_from_ws = <<>>
    /\ notices = 0
    /\ reads = 0

\* No WebcamCapture has been made.
WebcamIdle ==
    /\ cap = "none"
    /\ gen = "none"
    /\ frame_ch = <<>>
    /\ shutdown_ch = 0
    /\ frame_count = 0
    /\ taken = <<>>
    /\ got = 0

\* The relay starts with no connection; no codec call, client or frame source
\* is modelled beside it.
Init ==
    /\ ServerInit
    /\ CodecIdle
    /\ ClientInit
    /\ WebcamIdle

\* ----------------------------------------------------------- handle_socket
\* socket.split(), tx.subscribe(), Uuid::new_v4(), String::new(). Ids are
\* handed out in the order the connections are accepted.
Connect(c) ==
    /\ phase[c] = "idle"
    /\ \A d \in Conns : d < c => phase[d] # "idle"
    /\ Cardinality(Accepted) + msgs < MaxWork
    /\ phase' = [phase EXCEPT ![c] = "info"]
    /\ username' = [username EXCEPT ![c] = ""]
    /\ UNCHANGED <<users, chan, rpc, spc, snap, out, sock, removals, inp>>
    /\ UNCHANGED <<codec, client, webcam>>

\* The client has closed or lost the connection and the server has not yet
\* met the failure: its next read or write on the socket is the first to fail.
Breaks(c) ==
    /\ sock[c] = "open"
    /\ Cardinality({d \in Conns : sock[d] = "closed"}) < MaxCloses

\* Mutant of Spawned: send_task is spawned before ServerInfo is written.
SpawnedBeforeInfo(c) == IF phase[c] = "info" THEN "wait" ELSE spc[c]

\* The position of send_task: it exists once handle_socket has spawned it,
\* after the ServerInfo write.
Spawned(c) == spc[c]

\* `let _ = sender.send(ServerInfo)`, then both tasks are spawned.
SendServerInfo(c) ==
    /\ phase[c] = "info"
    /\ sock[c] = "open"
    /\ phase' = [phase EXCEPT ![c] = "running"]
    /\ out' = [out EXCEPT ![c] = Append(@, ServerInfo)]
    /\ rpc' = [rpc EXCEPT ![c] = "wait"]
    /\ spc' = [spc EXCEPT ![c] = "wait"]
    /\ UNCHANGED <<users, chan, username, snap, sock, removals, inp>>
    /\ UNCHANGED <<codec, client, webcam>>

\* The same when the write fails: the result is dropped (`let _`).
SendServerInfoFailed(c) ==
    /\ phase[c] = "info"
    /\ Breaks(c)
    /\ sock' = [sock EXCEPT ![c] = "closed"]
    /\ phase' = [phase EXCEPT ![c] = "running"]
    /\ rpc' = [rpc EXCEPT ![c] = "wait"]
    /\ spc' = [spc EXCEPT ![c] = "wait"]
    /\ UNCHANGED <<users, chan, username, snap, out, removals, inp>>
    /\ UNCHANGED <<codec, client, webcam>>

\* --------------------------------------------------------------- recv_task
\* receiver.next() yields a text message that decodes.
CanRead(c) ==
    /\ rpc[c] = "wait"
    /\ sock[c] = "open"
    /\ Cardinality(Accepted) + msgs < MaxWork

\* Message::Join arm, up to the roster insert. `username = name` is local to
\* the task, so it takes effect together with the insert that follows it.
RecvJoin(c, name) ==
    /\ CanRead(c)
    /\ msgs' = msgs + 1
    /\ last' = [conn |-> c, type |-> "Join", text |-> 0]
    /\ username' = [username EXCEPT ![c] = name]
    /\ users' = Insert(users, c, UserInfo(c, name, Now))
    /\ rpc' = [rpc EXCEPT ![c] = "send_join"]
    /\ UNCHANGED <<chan, phase, spc, snap, out, sock, removals>>
    /\ UNCHANGED <<codec, client, webcam>>

\* tx.send(Message::Join { id: user_id, username }).
JoinSend(c) ==
    /\ rpc[c] = "send_join"
    /\ Publish(Join(c, username[c]), Join(c, username[c]))
    /\ rpc' = [rpc EXCEPT ![c] = "read_users"]
    /\ UNCHANGED <<users, phase, spc, username, snap, out, sock, removals,
                   inp>>
    /\ UNCHANGED <<codec, client, webcam>>

\* users.read().await.values().cloned().collect().
JoinReadUsers(c) ==
    /\ rpc[c] = "read_users"
    /\ snap' = [snap EXCEPT ![c] = Values(users)]
    /\ rpc' = [rpc EXCEPT ![c] = "send_list"]
    /\ UNCHANGED <<users, chan, phase, spc, username, out, sock, removals,
                   inp>>
    /\ UNCHANGED <<codec, client, webcam>>

\* tx.send(Message::UserList { users }).
JoinSendList(c) ==
    /\ rpc[c] = "send_list"
    /\ Publish(UserList(snap[c]), UserList(snap[c]))
    /\ snap' = [snap EXCEPT ![c] = {}]
    /\ rpc' = [rpc EXCEPT ![c] = "wait"]
    /\ UNCHANGED <<users, phase, spc, username, out, sock, removals, inp>>
    /\ UNCHANGED <<codec, client, webcam>>

\* Mutant of Named: the arms publish without looking at the cached name.
NamedAlways(c) == TRUE

\* The guard of the Chat and VideoFrame arms: !username.is_empty().
Named(c) == username[c] # ""

\* Mutant of ChatEvent: the arm trusts the identity the client wrote.
ChatEventTrusting(c, m) == Chat(m.id, m.username, m.text, Now)

\* The event the Chat arm builds from the client's message m.
ChatEvent(c, m) == Chat(c, username[c], m.text, Now)

\* Mutant of FrameEvent: the hub decodes the payload and publishes an empty
\* payload in place of one that is not a frame.
FrameEventDecoded(c, m) ==
    VideoFrame(c, username[c], IF NotAFrame(m.text) THEN 0 ELSE m.text)

\* The event the VideoFrame arm builds from the client's message m.
FrameEvent(c, m) == VideoFrame(c, username[c], m.text)

\* Message::Chat arm. m2 is the twin run's message: same text, other id and
\* username fields.
RecvChat(c, m, m2) ==
    /\ CanRead(c)
    /\ msgs' = msgs + 1
    /\ last' = [conn |-> c, type |-> "Chat", text |-> m.text]
    /\ IF Named(c)
         THEN Publish(ChatEvent(c, m), ChatEvent(c, m2))
         ELSE UNCHANGED chan
    /\ UNCHANGED <<users, phase, rpc, spc, username, snap, out, sock,
                   removals>>
    /\ UNCHANGED <<codec, client, webcam>>

\* Message::VideoFrame arm.
RecvVideoFrame(c, m, m2) ==
    /\ CanRead(c)
    /\ msgs' = msgs + 1
    /\ last' = [conn |-> c, type |-> "VideoFrame", text |-> m.text]
    /\ IF Named(c)
         THEN Publish(FrameEvent(c, m), FrameEvent(c, m2))
         ELSE UNCHANGED chan
    /\ UNCHANGED <<users, phase, rpc, spc, username, snap, out, sock,
                   removals>>
    /\ UNCHANGED <<codec, client, webcam>>

\* Mutant of AfterMalformed: a message that does not decode ends the task.
AfterMalformedEnds(c) == "ended"

\* Where recv_task goes on after a message that matched none of the nested
\* `if let`s: at the next receiver.next() of the `while let` loop.
AfterMalformed(c) == "wait"

\* receiver.next() yields a text message for which Message::from_bytes is Err
\* (not JSON, an unknown variant tag, a missing field): the innermost `if let
\* Ok(message)` does not match and nothing else is done with the message.
RecvMalformed(c) ==
    /\ CanRead(c)
    /\ msgs' = msgs + 1
    /\ last' = [conn |-> c, type |-> "Malformed", text |-> 0]
    /\ rpc' = [rpc EXCEPT ![c] = AfterMalformed(c)]
    /\ UNCHANGED <<users, chan, phase, spc, username, snap, out, sock,
                   removals>>
    /\ UNCHANGED <<codec, client, webcam>>

\* Mutant of OtherArmEvents: the hub relays what the client sent.
OtherArmRelays(m) == <<m>>

\* The events the `_ => {}` arm publishes for a message m: none.
OtherArmEvents(m) == <<>>

\* The `_ => {}` arm: the message decodes to a variant other than Join, Chat
\* and VideoFrame.
RecvOther(c, m) ==
    /\ CanRead(c)
    /\ msgs' = msgs + 1
    /\ last' = [conn |-> c, type |-> m.type, text |-> 0]
    /\ IF OtherArmEvents(m) = <<>>
         THEN UNCHANGED chan
         ELSE Publish(OtherArmEvents(m)[1], OtherArmEvents(m)[1])
    /\ UNCHANGED <<users, phase, rpc, spc, username, snap, out, sock,
                   removals>>
    /\ UNCHANGED <<codec, client, webcam>>

\* receiver.next() yields None (after a Close frame or an error): the
\* `while let` loop and the task end.
RecvEnd(c) ==
    /\ rpc[c] = "wait"
    /\ sock[c] = "closed" \/ Breaks(c)
    /\ sock' = [sock EXCEPT ![c] = "closed"]
    /\ rpc' = [rpc EXCEPT ![c] = "ended"]
    /\ UNCHANGED <<users, chan, phase, spc, username, snap, out, removals,
                   inp>>
    /\ UNCHANGED <<codec, client, webcam>>

\* --------------------------------------------------------------- send_task
\* Mutant of NextEvent: the receiver hands out the newest event queued.
NewestEvent(q) == q[Len(q)]

\* The event rx.recv() returns next: the oldest one queued.
NextEvent(q) == Head(q)

\* rx.recv() is Err(Lagged): the `while let Ok` loop ends, the task ends and
\* drops the receiver.
SendTaskLagged(c) ==
    /\ Spawned(c) = "wait"
    /\ lagged[c]
    /\ spc' = [spc EXCEPT ![c] = "ended"]
    /\ pending' = [pending EXCEPT ![c] = <<>>]
    /\ lagged' = [lagged EXCEPT ![c] = FALSE]
    /\ UNCHANGED <<users, log, log2, phase, rpc, username, snap, out, sock,
                   removals, inp>>
    /\ UNCHANGED <<codec, client, webcam>>

\* rx.recv() is Ok(msg) and the message is written to the socket.
SendTaskForward(c) ==
    /\ Spawned(c) = "wait"
    /\ ~lagged[c]
    /\ pending[c] # <<>>
    /\ sock[c] = "open"
    /\ out' = [out EXCEPT ![c] = Append(@, NextEvent(pending[c]))]
    /\ pending' = [pending EXCEPT ![c] = Tail(@)]
    /\ UNCHANGED <<users, log, log2, lagged, phase, rpc, spc, username, snap,
                   sock, removals, inp>>
    /\ UNCHANGED <<codec, client, webcam>>

\* rx.recv() is Ok(msg) and sender.send fails: break, the task ends and drops
\* the receiver.
SendTaskFailed(c) ==
    /\ Spawned(c) = "wait"
    /\ ~lagged[c]
    /\ pending[c] # <<>>
    /\ sock[c] = "closed" \/ Breaks(c)
    /\ sock' = [sock EXCEPT ![c] = "closed"]
    /\ spc' = [spc EXCEPT ![c] = "ended"]
    /\ pending' = [pending EXCEPT ![c] = <<>>]
    /\ UNCHANGED <<users, log, log2, lagged, phase, rpc, username, snap, out,
                   removals, inp>>
    /\ UNCHANGED <<codec, client, webcam>>

\* ----------------------------------------------------------------- cleanup
\* Mutant of SelectReady: each flow that ends drives the cleanup.
SelectReadyEach(c) ==
    \/ phase[c] = "running" /\ (rpc[c] = "ended" \/ spc[c] = "ended")
    \/ phase[c] = "done" /\ rpc[c] = "ended" /\ spc[c] = "ended"

\* Mutant of SelectReady: the handler waits for both tasks (a join).
SelectReadyBoth(c) ==
    /\ phase[c] = "running"
    /\ rpc[c] = "ended" /\ spc[c] = "ended"

\* tokio::select! over the two join handles: one of the tasks has finished.
SelectReady(c) ==
    /\ phase[c] = "running"
    /\ rpc[c] = "ended" \/ spc[c] = "ended"

\* select! returns; users.write().await.remove(&user_id).
RemoveUser(c) ==
    /\ SelectReady(c)
    /\ users' = Remove(users, c)
    /\ removals' = [removals EXCEPT ![c] = @ + 1]
    /\ phase' = [phase EXCEPT ![c] = "leave"]
    /\ UNCHANGED <<chan, rpc, spc, username, snap, out, sock, inp>>
    /\ UNCHANGED <<codec, client, webcam>>

\* tx.send(Message::Leave { id: user_id }); handle_socket returns.
SendLeave(c) ==
    /\ phase[c] = "leave"
    /\ Publish(Leave(c), Leave(c))
    /\ phase' = [phase EXCEPT ![c] = "done"]
    /\ UNCHANGED <<users, rpc, spc, username, snap, out, sock, removals,
                   inp>>
    /\ UNCHANGED <<codec, client, webcam>>

\* ---------------------------------------------------------- specification
\* What a client may put into a Chat or VideoFrame message. The text or
\* payload is a number that identifies the content: it grows with every
\* message read and its lowest bit is the kind of content.
ClientMsgs(t) ==
    {Msg(t, i, n, 2 * (msgs + 1) + k, 0, {}) :
        i \in Conns, n \in Names, k \in Payloads(t)}

\* recv_task reads a Chat message: any text the client chose to write. The
\* twin run's message carries the same text.
ReadChat(c) ==
    \E m, m2 \in ClientMsgs("Chat") : m2.text = m.text /\ RecvChat(c, m, m2)

\* recv_task reads a VideoFrame message: any payload.
ReadVideoFrame(c) ==
    \E m, m2 \in ClientMsgs("VideoFrame") :
        m2.text = m.text /\ RecvVideoFrame(c, m, m2)

\* The variants of Message the match has no arm for. Error is written as a
\* Chat-shaped record whose text is blank.
OtherKinds == {"Leave", "UserList", "ServerInfo", "Error"}

\* What a client may put into a message of such a variant: any id in a Leave,
\* a list of its own making in a UserList.
OtherMsgs ==
    {Leave(i) : i \in Conns}
        \cup {UserList({UserInfo(i, "a", 0)}) : i \in Conns}
        \cup {ServerInfo, Msg("Error", 0, "", 0, 0, {})}

\* recv_task reads a Leave, UserList, ServerInfo or Error message.
ReadOther(c) == \E m \in OtherMsgs : RecvOther(c, m)

\* recv_task reads a Join message.
ReadJoin(c) == \E n \in Names : RecvJoin(c, n)

Next ==
    \/ \E c \in Conns : Connect(c)
    \/ \E c \in Conns : SendServerInfo(c)
    \/ \E c \in Conns : SendServerInfoFailed(c)
    \/ \E c \in Conns : ReadJoin(c)
    \/ \E c \in Conns : JoinSend(c)
    \/ \E c \in Conns : JoinReadUsers(c)
    \/ \E c \in Conns : JoinSendList(c)
    \/ \E c \in Conns : ReadChat(c)
    \/ \E c \in Conns : ReadVideoFrame(c)
    \/ \E c \in Conns : RecvMalformed(c)
    \/ \E c \in Conns : ReadOther(c)
    \/ \E c \in Conns : RecvEnd(c)
    \/ \E c \in Conns : SendTaskLagged(c)
    \/ \E c \in Conns : SendTaskForward(c)
    \/ \E c \in Conns : SendTaskFailed(c)
    \/ \E c \in Conns : RemoveUser(c)
    \/ \E c \in Conns : SendLeave(c)

Spec == Init /\ [][Next]_vars

\* ------------------------------------------------------------------- codec
\* Bounds of the codec's inputs.
\* Longest body, in bytes, of a buffer handed to deserialize.
MaxBody == 8
\* Largest width and height of the small frames.
MaxSide == 2
\* Longest pixel buffer handed to from_rgb_data with a small frame size.
MaxData == 7
\* Side of the large square frame: 4 * BigSide * BigSide does not fit 16 bits.
BigSide == 128
\* Width of the one-row frame whose last pixels' byte offsets do not fit
\* 16 bits.
WideRow == 21847

\* u16 arithmetic: values wrap at 2^16 unless the build checks overflow.
U16 == 65536
Wrap(x) == x % U16

\* const PALETTE, as the bytes of the literal (69 of them: `\\` is one byte).
PALETTE ==
    <<32, 46, 39, 96, 94, 34, 44, 58, 59, 73, 108, 33, 105, 62, 60, 126, 43,
      95, 45, 63, 93, 91, 125, 123, 49, 41, 40, 124, 92, 116, 102, 106, 114,
      120, 110, 117, 118, 99, 122, 88, 89, 85, 74, 67, 76, 81, 48, 79, 90,
      109, 119, 113, 112, 100, 98, 107, 104, 97, 111, 42, 35, 77, 87, 38, 56,
      37, 66, 64, 36>>

\* fn luminance: (0.299 r + 0.587 g + 0.114 b) as u8, which truncates. The
\* f32 evaluation gives this integer for every pixel over PixelBytes (it is
\* one less for 836 of the 2^24 pixels, (8, 80, 32) the first).
luminance(r, g, b) == (299 * r + 587 * g + 114 * b) \div 1000

\* Mutant of palette_index: scaled by the length of the ramp.
palette_index_len(lum) == (lum * Len(PALETTE)) \div 255

\* ascii_for_rgb's `idx`: (lum * (PALETTE.len() - 1)) / 255 in usize.
palette_index(lum) == (lum * (Len(PALETTE) - 1)) \div 255

\* fn ascii_for_rgb: PALETTE[idx] as char.
ascii_for_rgb(r, g, b) == PALETTE[palette_index(luminance(r, g, b)) + 1]

\* The cell pushed for a pixel that is not in the buffer.
Blank == <<32, 0, 0, 0>>

Ok(w, h, cs) == Ret("ok", w, h, cs, 0)
Err == Ret("err", 0, 0, <<>>, 0)
Panic == Ret("panic", 0, 0, <<>>, 0)

\* AsciiFrame::from_rgb_data. `width * height`, `y * width + x` and `* 3` are
\* u16 operations: a build that checks overflow panics at the first that does
\* not fit, any other build goes on with the wrapped value. p numbers the
\* cells in the order the two loops push them.
from_rgb_data(data, width, height, mono, ck) ==
    LET n == width * height
        cell(p) ==
            LET y == p \div width
                x == p % width
                i == Wrap(Wrap(Wrap(y * width) + x) * 3)
            IN IF i + 2 >= Len(data) THEN Blank
               ELSE LET r == data[i + 1]
                        g == data[i + 2]
                        b == data[i + 3]
                        ch == ascii_for_rgb(r, g, b)
                        lum == luminance(r, g, b)
                    IN IF mono THEN <<ch, lum, lum, lum>>
                       ELSE <<ch, r, g, b>>
    IN IF ck /\ (n >= U16 \/ (n > 0 /\ (n - 1) * 3 >= U16)) THEN Panic
       ELSE Ok(width, height, [p \in 1..n |-> cell(p - 1)])

\* AsciiFrame::serialize: width and height little-endian, then four bytes per
\* cell, the glyph cut to its low byte (`ch as u8`).
serialize(f) ==
    LET byte(i) ==
            LET c == f.cells[(i \div 4) + 1]
            IN IF i % 4 = 0 THEN c[1] % 256 ELSE c[(i % 4) + 1]
    IN <<f.width % 256, f.width \div 256, f.height % 256, f.height \div 256>>
          \o [i \in 1..(4 * Len(f.cells)) |-> byte(i - 1)]

\* Mutant of expected_len: the product is not scaled by the cell size.
expected_len_cells(width, height) == 4 + Wrap(Wrap(width * height))

\* deserialize's `expected_len`: 4 + (width * height * 4) as usize, the
\* product computed in u16.
expected_len(width, height) == 4 + Wrap(Wrap(width * height) * 4)

\* AsciiFrame::deserialize.
deserialize(data, ck) ==
    IF Len(data) < 4 THEN Err
    ELSE LET width == data[1] + 256 * data[2]
             height == data[3] + 256 * data[4]
             n == (Len(data) - 4) \div 4
             cell(k) == <<data[4 * k + 1], data[4 * k + 2], data[4 * k + 3],
                          data[4 * k + 4]>>
         IN IF ck /\ (width * height >= U16 \/ width * height * 4 >= U16)
              THEN Panic
            ELSE IF Len(data) # expected_len(width, height) THEN Err
            ELSE Ok(width, height, [k \in 1..n |-> cell(k)])

\* ------------------------------------------------------------ codec inputs
\* Byte values of the headers of the buffers handed to deserialize.
HeaderBytes == {0, 1, 2, 128}

\* The body of a buffer: k bytes.
Body(k) == [i \in 1..k |-> 64 + (i % 7)]

\* Buffers: too short for a header, or a header followed by a body.
Buffers ==
    {Body(k) : k \in 0..3}
        \cup {<<a, b, c, d>> \o Body(k) :
                 a \in HeaderBytes, b \in HeaderBytes, c \in HeaderBytes,
                 d \in HeaderBytes, k \in 0..MaxBody}

\* Cells of the frames handed to serialize: one-byte glyphs.
Cells == {Blank, <<64, 255, 0, 128>>}

\* Well-formed frames (cells.len() == width * height): the small ones, and
\* a large one of blank cells.
Frames ==
    {[width |-> w, height |-> h, cells |-> cs] :
        w \in {BigSide}, h \in {BigSide},
        cs \in {[p \in 1..(BigSide * BigSide) |-> Blank]}}
      \cup UNION {UNION {{[width |-> w, height |-> h, cells |-> cs] :
                            cs \in [1..(w * h) -> Cells]} :
                        w \in 0..MaxSide} : h \in 0..MaxSide}

\* Byte values of the pixel buffers handed to from_rgb_data.
PixelBytes == {0, 255}

\* Pixel buffers of up to n bytes.
Pixels(n) == UNION {[1..k -> PixelBytes] : k \in 0..n}

\* The calls: any buffer to deserialize; any frame through serialize and
\* deserialize; any small size with any pixel buffer, and the wide row with an
\* empty and a full buffer, to from_rgb_data; any luminance to the glyph index.
Calls ==
    {Call("deserialize", ck, d, 0, 0, <<>>, FALSE, 0) :
        ck \in BOOLEAN, d \in Buffers}
      \cup {Call("roundtrip", ck, <<>>, f.width, f.height, f.cells, FALSE, 0) :
              ck \in BOOLEAN, f \in Frames}
      \cup {Call("from_rgb_data", ck, d, w, h, <<>>, mo, 0) :
              ck \in BOOLEAN, d \in Pixels(MaxData), w \in 0..MaxSide,
              h \in 0..MaxSide, mo \in BOOLEAN}
      \cup {Call("from_rgb_data", ck, d, WideRow, 1, <<>>, mo, 0) :
              ck \in BOOLEAN, mo \in BOOLEAN,
              d \in {[i \in 1..k |-> 255] : k \in {0, MaxData}}}
      \cup {Call("palette_index", FALSE, <<>>, 0, 0, <<>>, FALSE, l) :
              l \in 0..255}

CodecInit ==
    /\ ServerInit
    /\ ClientInit
    /\ WebcamIdle
    /\ call \in Calls
    /\ ret = NoRet

\* The frame behind a round-trip call.
Frame == [width |-> call.width, height |-> call.height, cells |-> call.cells]

\* AsciiFrame::deserialize(&data).
CallDeserialize ==
    /\ call.fn = "deserialize"
    /\ ret = NoRet
    /\ ret' = deserialize(call.data, call.checks)
    /\ UNCHANGED <<call, server, client, webcam>>

\* AsciiFrame::deserialize(&frame.serialize()).
CallRoundTrip ==
    /\ call.fn = "roundtrip"
    /\ ret = NoRet
    /\ ret' = deserialize(serialize(Frame), call.checks)
    /\ UNCHANGED <<call, server, client, webcam>>

\* AsciiFrame::from_rgb_data(&data, width, height, mono).
CallFromRgbData ==
    /\ call.fn = "from_rgb_data"
    /\ ret = NoRet
    /\ ret' = from_rgb_data(call.data, call.width, call.height, call.mono,
                            call.checks)
    /\ UNCHANGED <<call, server, client, webcam>>

\* The index ascii_for_rgb computes for a luminance.
CallPaletteIndex ==
    /\ call.fn = "palette_index"
    /\ ret = NoRet
    /\ ret' = Ret("ok", 0, 0, <<>>, palette_index(call.lum))
    /\ UNCHANGED <<call, server, client, webcam>>

CodecNext ==
    \/ CallDeserialize
    \/ CallRoundTrip
    \/ CallFromRgbData
    \/ CallPaletteIndex

CodecSpec == CodecInit /\ [][CodecNext]_vars

\* ------------------------------------------------------------------ client
\* Bounds of the client model.
\* Number of items the websocket stream yields before it ends.
MaxReads == 3
\* Number of messages the application may have queued for the write task.
MaxQueued == 2

\* The kinds of message the server sends.
ServerKinds == {"ServerInfo", "Join", "UserList", "Chat"}

\* connect_async fails: ChatClient::connect returns Err and the JoinChat arm
\* of run_chat_client adds "Failed to connect" as a System message; `client`
\* stays None.
ConnectFailed ==
    /\ link = "none"
    /\ link' = "failed"
    /\ notices' = notices + 1
    /\ UNCHANGED <<wtask, rtask, rx_from_app, rx_from_ws, reads>>
    /\ UNCHANGED <<server, codec, webcam>>

\* connect_async succeeds: both tasks are spawned, connect returns the
\* client and the JoinChat arm queues the Join.
ConnectOk ==
    /\ link = "none"
    /\ link' = "up"
    /\ wtask' = "wait"
    /\ rtask' = "wait"
    /\ rx_from_app' = 1
    /\ UNCHANGED <<rx_from_ws, notices, reads>>
    /\ UNCHANGED <<server, codec, webcam>>

\* ChatClient::send: the application queues a Chat or VideoFrame.
AppSend ==
    /\ link = "up"
    /\ wtask = "wait"
    /\ rx_from_app < MaxQueued
    /\ rx_from_app' = rx_from_app + 1
    /\ UNCHANGED <<link, wtask, rtask, rx_from_ws, notices, reads>>
    /\ UNCHANGED <<server, codec, webcam>>

\* The write task takes a message and write.send succeeds.
WriteOk ==
    /\ wtask = "wait"
    /\ rx_from_app > 0
    /\ rx_from_app' = rx_from_app - 1
    /\ UNCHANGED <<link, wtask, rtask, rx_from_ws, notices, reads>>
    /\ UNCHANGED <<server, codec, webcam>>

\* The write task takes a message and write.send fails: it hands
\* Error("Connection lost") to the application and breaks.
WriteFailed ==
    /\ wtask = "wait"
    /\ rx_from_app > 0
    /\ rx_from_app' = rx_from_app - 1
    /\ rx_from_ws' = Append(rx_from_ws, "Error")
    /\ wtask' = "failed"
    /\ UNCHANGED <<link, rtask, notices, reads>>
    /\ UNCHANGED <<server, codec, webcam>>

\* The stream has yielded fewer than MaxReads items and the read task is
\* at read.next().
CanReadNext ==
    /\ rtask = "wait"
    /\ reads < MaxReads

\* read.next() is Some(Ok(Text)) and the text decodes: the message goes to
\* the application.
ReadText(k) ==
    /\ CanReadNext
    /\ reads' = reads + 1
    /\ rx_from_ws' = Append(rx_from_ws, k)
    /\ UNCHANGED <<link, wtask, rtask, rx_from_app, notices>>
    /\ UNCHANGED <<server, codec, webcam>>

\* read.next() is a text that does not decode, or a Binary, Ping or Pong
\* message (the `_ => {}` arm): nothing is done with it.
ReadIgnored ==
    /\ CanReadNext
    /\ reads' = reads + 1
    /\ UNCHANGED <<link, wtask, rtask, rx_from_app, rx_from_ws, notices>>
    /\ UNCHANGED <<server, codec, webcam>>

\* read.next() is Some(Ok(Close)): Error("Server closed connection"), break.
ReadClose ==
    /\ rtask = "wait"
    /\ rx_from_ws' = Append(rx_from_ws, "Error")
    /\ rtask' = "closed"
    /\ UNCHANGED <<link, wtask, rx_from_app, notices, reads>>
    /\ UNCHANGED <<server, codec, webcam>>

\* read.next() is Some(Err(e)): Error("WebSocket error: ..."), break.
ReadError ==
    /\ rtask = "wait"
    /\ rx_from_ws' = Append(rx_from_ws, "Error")
    /\ rtask' = "errored"
    /\ UNCHANGED <<link, wtask, rx_from_app, notices, reads>>
    /\ UNCHANGED <<server, codec, webcam>>

\* read.next() is None, the stream having yielded neither a Close message
\* nor an error: the `while let Some` loop and the task end, and nothing is
\* handed to the application.
ReadEnd ==
    /\ rtask = "wait"
    /\ rtask' = "eof"
    /\ UNCHANGED <<link, wtask, rx_from_app, rx_from_ws, notices, reads>>
    /\ UNCHANGED <<server, codec, webcam>>

ClientNext ==
    \/ ConnectFailed
    \/ ConnectOk
    \/ AppSend
    \/ WriteOk
    \/ WriteFailed
    \/ \E k \in ServerKinds : ReadText(k)
    \/ ReadIgnored
    \/ ReadClose
    \/ ReadError
    \/ ReadEnd

ClientSpec == Init /\ [][ClientNext]_vars

\* ------------------------------------------------------------------ webcam
\* Capacity of the frame channel: bounded(10).
FrameCap == 10
\* Number of frames the generator produces at most.
MaxFrames == 12

\* WebcamCapture::new: both channels are made and the generator thread is
\* spawned; it starts at the top of its loop.
NewCapture ==
    /\ cap = "none"
    /\ cap' = "live"
    /\ gen' = "check"
    /\ UNCHANGED <<frame_ch, shutdown_ch, frame_count, taken, got>>
    /\ UNCHANGED <<server, codec, client>>

\* Mutant of Ready: the call waits for a frame (recv in place of try_recv).
ReadyWhenQueued(q) == q # <<>>

\* Whether frame_rx.try_recv() returns at once with q queued: always.
Ready(q) == TRUE

\* WebcamCapture::get_frame: frame_rx.try_recv().ok(). 0 stands for None,
\* also returned when the generator has gone and nothing is queued.
GetFrame ==
    /\ cap = "live"
    /\ Ready(frame_ch)
    /\ IF frame_ch = <<>>
         THEN /\ got' = 0
              /\ UNCHANGED <<frame_ch, taken>>
         ELSE /\ got' = Head(frame_ch)
              /\ frame_ch' = Tail(frame_ch)
              /\ taken' = Append(taken, Head(frame_ch))
    /\ UNCHANGED <<cap, gen, shutdown_ch, frame_count>>
    /\ UNCHANGED <<server, codec, client>>

\* Drop for WebcamCapture: shutdown_tx.take() and tx.send(()). The channel
\* holds one message and nothing else is ever sent on it.
DropSignal ==
    /\ cap = "live"
    /\ cap' = "dropping"
    /\ shutdown_ch' = 1
    /\ UNCHANGED <<gen, frame_ch, frame_count, taken, got>>
    /\ UNCHANGED <<server, codec, client>>

\* After Drop::drop the fields are dropped, frame_rx among them: the frame
\* channel has no receiver any more. What is queued stays queued.
DropFields ==
    /\ cap = "dropping"
    /\ cap' = "dropped"
    /\ UNCHANGED <<gen, frame_ch, shutdown_ch, frame_count, taken, got>>
    /\ UNCHANGED <<server, codec, client>>

\* generate_test_pattern, top of the loop: shutdown_rx.try_recv().is_ok()
\* breaks.
GenCheck ==
    /\ gen = "check"
    /\ IF shutdown_ch > 0
         THEN shutdown_ch' = 0 /\ gen' = "done"
         ELSE shutdown_ch' = shutdown_ch /\ gen' = "pace"
    /\ UNCHANGED <<cap, frame_ch, frame_count, taken, got>>
    /\ UNCHANGED <<server, codec, client>>

\* last_frame.elapsed() < frame_delay: sleep a millisecond and continue.
GenTooEarly ==
    /\ gen = "pace"
    /\ gen' = "sleep"
    /\ UNCHANGED <<cap, frame_ch, shutdown_ch, frame_count, taken, got>>
    /\ UNCHANGED <<server, codec, client>>

\* The sleep is over.
GenWake ==
    /\ gen = "sleep"
    /\ gen' = "check"
    /\ UNCHANGED <<cap, frame_ch, shutdown_ch, frame_count, taken, got>>
    /\ UNCHANGED <<server, codec, client>>

\* The frame delay has passed: the frame is built and the thread is at
\* frame_tx.send(frame).
GenBuild ==
    /\ gen = "pace"
    /\ frame_count < MaxFrames
    /\ gen' = "send"
    /\ UNCHANGED <<cap, frame_ch, shutdown_ch, frame_count, taken, got>>
    /\ UNCHANGED <<server, codec, client>>

\* Mutant of Disconnected: a send never learns that the receiver has gone.
DisconnectedNever == FALSE

\* The frame channel has no receiver: a send on it, blocked or not, is Err.
Disconnected == cap = "dropped"

\* frame_tx.send(frame) returns Err: break.
GenSendFailed ==
    /\ gen = "send"
    /\ Disconnected
    /\ gen' = "done"
    /\ UNCHANGED <<cap, frame_ch, shutdown_ch, frame_count, taken, got>>
    /\ UNCHANGED <<server, codec, client>>

\* frame_tx.send(frame) returns Ok once the channel has room (it blocks
\* while the channel is full); frame_count is incremented. Frames are
\* numbered from 1 in the order they are generated.
GenSend ==
    /\ gen = "send"
    /\ ~Disconnected
    /\ Len(frame_ch) < FrameCap
    /\ frame_ch' = Append(frame_ch, frame_count + 1)
    /\ frame_count' = frame_count + 1
    /\ gen' = "check"
    /\ UNCHANGED <<cap, shutdown_ch, taken, got>>
    /\ UNCHANGED <<server, codec, client>>

WebcamNext ==
    \/ NewCapture
    \/ GetFrame
    \/ DropSignal
    \/ DropFields
    \/ GenCheck
    \/ GenTooEarly
    \/ GenWake
    \/ GenBuild
    \/ GenSendFailed
    \/ GenSend

WebcamSpec == Init /\ [][WebcamNext]_vars

\* The generator thread is scheduled and its sleep ends; the drop of a
\* WebcamCapture, once begun, goes on to drop the fields. Whether the frame
\* delay has passed when the thread looks is left open.
WebcamFairSpec ==
    /\ WebcamSpec
    /\ WF_vars(GenCheck)
    /\ WF_vars(GenTooEarly \/ GenBuild)
    /\ WF_vars(GenWake)
    /\ WF_vars(GenSend)
    /\ WF_vars(GenSendFailed)
    /\ WF_vars(DropFields)

\* ------------------------------------------------------------- properties
TypeOK ==
    /\ DOMAIN users \subseteq Conns
    /\ \A c \in Conns :
          /\ phase[c] \in {"idle", "info", "running", "leave", "done"}
          /\ rpc[c] \in {"none", "wait", "send_join", "read_users",
                         "send_list", "ended"}
          /\ spc[c] \in {"none", "wait", "ended"}
          /\ username[c] \in Names
          /\ Len(pending[c]) <= ChanCap
          /\ sock[c] \in {"open", "closed"}
    /\ msgs \in 0..MaxWork

\* Positions of the log holding a message of one of the kinds ts from id c.
From(c, ts) == {i \in DOMAIN log : log[i].type \in ts /\ log[i].id = c}

Content == {"Chat", "VideoFrame"}

\* The connection has sent a Join that recv_task has read.
Joined(c) == rpc[c] = "send_join" \/ From(c, {"Join"}) # {}

\* The cleanup of the connection has removed its id from the roster.
Cleaned(c) == phase[c] \in {"leave", "done"}

\* C1: whichever flow of a connection ends first, and even when both have
\* ended, the cleanup runs exactly once: never more than one Leave{id} and one
\* roster removal, none before a flow has ended, and exactly one of each once
\* handle_socket has returned.
CleanupExactlyOnce ==
    \A c \in Conns :
        /\ Cardinality(From(c, {"Leave"})) <= 1
        /\ removals[c] <= 1
        /\ phase[c] \in {"idle", "info", "running"} =>
              From(c, {"Leave"}) = {} /\ removals[c] = 0
        /\ phase[c] = "done" =>
              Cardinality(From(c, {"Leave"})) = 1 /\ removals[c] = 1

\* Both flows of a connection have ended and its cleanup has run.
BothFlowsEndedAfterCleanup ==
    \E c \in Conns :
        /\ phase[c] = "done"
        /\ rpc[c] = "ended"
        /\ spc[c] = "ended"
        /\ From(c, {"Leave"}) # {}

\* C2: once Leave{id} is published, no Join, Chat or VideoFrame carrying that
\* id is published any more.
NoEventAfterLeave ==
    \A c \in Conns : \A i \in From(c, {"Leave"}) :
        \A j \in From(c, {"Join", "Chat", "VideoFrame"}) : j < i

\* C3: the roster holds exactly the ids of the connections that have sent a
\* Join and whose cleanup has not run.
RosterIsJoinedNotCleaned ==
    DOMAIN users = {c \in Conns : Joined(c) /\ ~Cleaned(c)}

\* The names of the Join events of id c, in the order published.
JoinNames(c) ==
    LET js == From(c, {"Join"})
        nth[k \in 0..Cardinality(js)] ==
            IF k = 0 THEN <<>>
            ELSE LET i == CHOOSE i \in js :
                              Cardinality({j \in js : j < i}) = k - 1
                 IN Append(nth[k - 1], log[i].username)
    IN nth[Cardinality(js)]

\* C4: the name of a roster entry is the name of the connection's first Join,
\* and so is the name on each of its Chat and VideoFrame events.
FirstJoinWins ==
    \A c \in Conns :
        JoinNames(c) # <<>> =>
            /\ c \in DOMAIN users => users[c].username = JoinNames(c)[1]
            /\ \A i \in From(c, Content) : log[i].username = JoinNames(c)[1]

\* C5: at most one Join event is ever published per participant id, and a
\* Join does not change the join timestamp of an entry the roster holds.
JoinOnce ==
    /\ [](\A c \in Conns : Cardinality(From(c, {"Join"})) <= 1)
    /\ [][\A c \in (DOMAIN users) \cap (DOMAIN users') :
              users'[c].joined_at = users[c].joined_at]_vars

\* C6: every published Chat or VideoFrame event with id i is preceded by a
\* published Join event with id i, and a connection that has sent no Join has
\* no roster entry whatever else it has sent.
ContentAfterJoin ==
    \A c \in Conns :
        /\ \A j \in From(c, Content) : \E i \in From(c, {"Join"}) : i < j
        /\ ~Joined(c) => c \notin DOMAIN users

\* A Chat or VideoFrame has just been read from a connection that has sent no
\* Join.
ContentBeforeJoin ==
    /\ last.type \in Content
    /\ ~Joined(last.conn)
    /\ phase[last.conn] = "running"

\* C7: whenever the roster holds an entry for a connection's id, a Chat read
\* on that connection is published as a Chat event with the entry's name.
ChatPublishedWhenInRoster ==
    [][(msgs' = msgs + 1 /\ last'.type = "Chat"
            /\ last'.conn \in DOMAIN users)
          => /\ Len(log') = Len(log) + 1
             /\ log'[Len(log')].type = "Chat"
             /\ log'[Len(log')].id = last'.conn
             /\ log'[Len(log')].username = users[last'.conn].username]_vars

\* C8: Chat and VideoFrame events carry the id of the connection they arrived
\* on and the name of its most recent Join, whatever id and username the
\* client wrote: the twin run publishes the same sequence of events.
IdentityFromServer ==
    /\ log2 = log
    /\ \A c \in Conns : \A j \in From(c, Content) :
          \E i \in From(c, {"Join"}) :
              /\ i < j
              /\ log[i].username = log[j].username
              /\ \A k \in From(c, {"Join"}) : k < j => k <= i

\* Connection 2 has published a Chat or VideoFrame event, its client being
\* free to write connection 1's id or any name into the message.
ContentFromSecond == From(2, Content) # {}

\* C9: every Join{id} event is immediately followed by a UserList event whose
\* users include id.
JoinThenUserList ==
    \A i \in DOMAIN log :
        (log[i].type = "Join" /\ i < Len(log)) =>
            /\ log[i + 1].type = "UserList"
            /\ \E u \in log[i + 1].users : u.id = log[i].id

\* Chat and VideoFrame messages of one sender appear in s in the order the
\* sender's connection read them (text numbers the messages as read).
SenderOrder(s) ==
    \A i, j \in DOMAIN s :
        (i < j /\ s[i].type \in Content /\ s[j].type \in Content
               /\ s[i].id = s[j].id) => s[i].text < s[j].text

\* C10: per sender, Chat and VideoFrame events are published in the order the
\* sender's connection read the messages, and every subscriber is handed
\* published events only, in that same order.
PerSenderOrder ==
    /\ SenderOrder(log)
    /\ \A c \in Conns :
          /\ SenderOrder(out[c])
          /\ \A i \in DOMAIN out[c] :
                out[c][i] = ServerInfo \/ \E k \in DOMAIN log : log[k] = out[c][i]

\* A subscriber has been handed two Chat or VideoFrame events of one sender.
TwoFromOneSenderDelivered ==
    \E c \in Conns : \E i, j \in DOMAIN out[c] :
        /\ i < j
        /\ out[c][i].type \in Content
        /\ out[c][j].type \in Content
        /\ out[c][i].id = out[c][j].id

\* C11: falling behind does not end a session: as long as no read and no write
\* on a connection's socket has failed and its client has not closed it, its
\* outbound flow goes on, its roster entry is not removed and no Leave is
\* published for it.
LagKeepsSession ==
    \A c \in Conns :
        sock[c] = "open" =>
            /\ spc[c] # "ended"
            /\ ~Cleaned(c)
            /\ From(c, {"Leave"}) = {}

\* The scheduling handle_socket relies on: once select! can return, the
\* handler is polled again, gets the roster's write lock (every holder
\* releases it within the statement that took it) and runs to its end.
FairSpec ==
    /\ Spec
    /\ \A c \in Conns : WF_vars(RemoveUser(c)) /\ WF_vars(SendLeave(c))

\* C12: under fair scheduling, once either flow of a connection has ended, the
\* connection's cleanup runs: its id is removed from the roster and Leave{id}
\* is published, whatever the other flow does. A flow that has ended stays
\* ended and a cleanup that has run stays run (CleanupExactlyOnce), so "a
\* flow has ended leads to the cleanup has run" is the same as: from some
\* point on, always, no flow has ended or the cleanup has run.
CleanupEventuallyRuns ==
    \A c \in Conns :
        <>[](~(rpc[c] = "ended" \/ spc[c] = "ended")
                \/ (removals[c] = 1 /\ From(c, {"Leave"}) # {}))

\* The cleanup of a connection has run after its outbound flow ended, while
\* its inbound flow is still reading from an open socket.
CleanedWhileInboundRuns ==
    \E c \in Conns :
        /\ phase[c] = "done"
        /\ spc[c] = "ended"
        /\ rpc[c] = "wait"
        /\ sock[c] = "open"
        /\ removals[c] = 1
        /\ From(c, {"Leave"}) # {}

\* C13: a subscriber receives nothing published before it subscribed. Nothing
\* is queued for or written to a connection that has not been accepted; an
\* event enters a receiver's queue only in the step that publishes it, and
\* only if the connection was accepted before that step; and the only things
\* written to a connection are ServerInfo and the head of its queue.
OnlyEventsAfterSubscribe ==
    [][\A c \in Conns :
          /\ phase[c] = "idle" => pending[c] = <<>> /\ out[c] = <<>>
          /\ pending'[c] # pending[c] =>
                \/ pending[c] # <<>> /\ pending'[c] = Tail(pending[c])
                \/ pending'[c] = <<>>
                \/ /\ phase[c] # "idle"
                   /\ Len(log') = Len(log) + 1
                   /\ pending'[c] = Enqueue(pending[c], log'[Len(log')])
          /\ out'[c] # out[c] =>
                \/ phase[c] = "info" /\ out'[c] = Append(out[c], ServerInfo)
                \/ /\ pending[c] # <<>>
                   /\ out'[c] = Append(out[c], Head(pending[c]))]_vars

\* Connection 2 has been handed an event although it has neither lost an
\* event nor been handed everything published: it was accepted after the
\* first events were published.
LateSubscriberDelivered ==
    /\ spc[2] = "wait"
    /\ ~lagged[2]
    /\ \E i \in DOMAIN out[2] : out[2][i].type # "ServerInfo"
    /\ Cardinality({i \in DOMAIN out[2] : out[2][i].type # "ServerInfo"})
           + Len(pending[2]) < Len(log)

\* C14: a message that does not decode is dropped and the connection goes on.
\* Reading it publishes nothing, changes neither the roster nor the cached
\* name nor any other state a later message is processed from, and leaves
\* both flows and the handler where they were.
MalformedDropped ==
    [][(msgs' = msgs + 1 /\ last'.type = "Malformed") =>
          /\ UNCHANGED <<users, username, log, log2, pending, lagged, snap,
                         out, removals>>
          /\ UNCHANGED <<phase, rpc, spc, sock>>
          /\ rpc[last'.conn] = "wait"]_vars

\* A message that does not decode has just been read from a connection that
\* has a roster entry and a cached name, and recv_task is reading on.
MalformedAfterJoin ==
    /\ last.type = "Malformed"
    /\ last.conn \in DOMAIN users
    /\ username[last.conn] # ""
    /\ rpc[last.conn] = "wait"
    /\ sock[last.conn] = "open"

\* A step in which a flow of connection c ends or its cleanup advances.
EndsOrCleans(c) ==
    \/ rpc[c] # "ended" /\ rpc'[c] = "ended"
    \/ spc[c] # "ended" /\ spc'[c] = "ended"
    \/ phase[c] \in {"running", "leave"} /\ phase'[c] # phase[c]

\* The step leaves connection d's roster entry, cached name, socket and the
\* positions of its handler and of both its flows as they were.
SessionKept(d) ==
    /\ (d \in DOMAIN users') = (d \in DOMAIN users)
    /\ d \in DOMAIN users => users'[d] = users[d]
    /\ username'[d] = username[d]
    /\ sock'[d] = sock[d]
    /\ out'[d] = out[d]
    /\ phase'[d] = phase[d]
    /\ rpc'[d] = rpc[d]
    /\ spc'[d] = spc[d]

\* C15: the end and the cleanup of one connection change no other
\* connection's roster entry and stop none of its flows: all another session
\* gets is the Leave event in its receiver's queue, and its receiver goes on.
FailureIsolated ==
    [][\A c \in Conns : EndsOrCleans(c) =>
          \A d \in Conns \ {c} :
              /\ SessionKept(d)
              /\ pending'[d] # pending[d] =>
                    pending'[d] = Enqueue(pending[d], Leave(c))
              /\ lagged'[d] = lagged[d]]_vars

\* C16: the hub treats a VideoFrame payload as opaque. Whatever the payload,
\* a serialized frame or not, reading the message changes neither the roster
\* nor the cached name nor any other state of the hub outside the channel,
\* and what is published, if the connection has a name, is one VideoFrame
\* event with the connection's id and name and exactly the payload read.
PayloadOpaque ==
    [][(msgs' = msgs + 1 /\ last'.type = "VideoFrame") =>
          LET c == last'.conn
              e == VideoFrame(c, username[c], last'.text)
          IN /\ UNCHANGED <<users, username, snap, phase, rpc, spc, out,
                            sock, removals>>
             /\ log' = IF username[c] # "" THEN Append(log, e) ELSE log
             /\ \A d \in Conns :
                   pending'[d] # pending[d] =>
                       username[c] # "" /\ pending'[d] = Enqueue(pending[d], e)]_vars

\* A VideoFrame event whose payload is not a serialized frame has just been
\* published and is waiting in a receiver's queue.
BadPayloadPublished ==
    /\ last.type = "VideoFrame"
    /\ NotAFrame(last.text)
    /\ log # <<>>
    /\ log[Len(log)].type = "VideoFrame"
    /\ log[Len(log)].text = last.text
    /\ \E d \in Conns : pending[d] # <<>> /\ pending[d][Len(pending[d])] = log[Len(log)]

\* The width and height in the header of a buffer of at least 4 bytes.
HeaderWidth(d) == d[1] + 256 * d[2]
HeaderHeight(d) == d[3] + 256 * d[4]

\* The buffer has a header and its length is 4 + width * height * 4, the
\* product taken in the integers (stated on the number of cells, so that no
\* intermediate value leaves the range of the evaluator's integers).
LengthMatchesHeader(d) ==
    /\ Len(d) >= 4
    /\ (Len(d) - 4) % 4 = 0
    /\ (Len(d) - 4) \div 4 = HeaderWidth(d) * HeaderHeight(d)

\* C17: deserialize returns, and accepts a buffer if and only if it has at
\* least 4 bytes and its length is 4 + width * height * 4 for the width and
\* height of its header, the product taken in the integers; an accepted frame
\* has exactly width * height cells.
DeserializeAcceptsExact ==
    (call.fn = "deserialize" /\ ret # NoRet) =>
        LET d == call.data
        IN /\ ret.status \in {"ok", "err"}
           /\ ret.status = "ok" <=> LengthMatchesHeader(d)
           /\ ret.status = "ok" => Len(ret.cells) = ret.width * ret.height

\* The same for the buffers whose header's width * height * 4 fits 16 bits.
DeserializeAcceptsSmall ==
    (call.fn = "deserialize" /\ ret # NoRet /\ Len(call.data) >= 4
        /\ HeaderWidth(call.data) * HeaderHeight(call.data) < U16 \div 4) =>
            DeserializeAcceptsExact

\* C18: for every well-formed frame with one-byte glyphs, deserialize of its
\* serialization succeeds and returns the frame's width, height and cells.
RoundTripExact ==
    (call.fn = "roundtrip" /\ ret # NoRet) =>
        ret = Ok(call.width, call.height, call.cells)

\* The same for the frames whose width * height * 4 fits 16 bits.
RoundTripSmall ==
    (call.width * call.height * 4 < U16) => RoundTripExact

\* C19: from_rgb_data never fails and returns width * height cells in
\* row-major order: the cell of row y, column x is the blank cell when the
\* three bytes at offset 3 * (y * width + x) are not all in the buffer, and
\* else has these bytes as its colour, or their luminance three times in mono
\* mode, and the glyph of these bytes in both modes.
FromRgbDataCells ==
    (call.fn = "from_rgb_data" /\ ret # NoRet) =>
        /\ ret.status = "ok"
        /\ Len(ret.cells) = call.width * call.height
        /\ \A y \in 0..(call.height - 1) : \A x \in 0..(call.width - 1) :
              LET o == 3 * (y * call.width + x)
                  cell == ret.cells[y * call.width + x + 1]
                  r == call.data[o + 1]
                  g == call.data[o + 2]
                  b == call.data[o + 3]
              IN IF o + 2 >= Len(call.data) THEN cell = Blank
                 ELSE /\ cell[1] = ascii_for_rgb(r, g, b)
                      /\ <<cell[2], cell[3], cell[4]>> =
                            IF call.mono
                              THEN <<luminance(r, g, b), luminance(r, g, b),
                                     luminance(r, g, b)>>
                              ELSE <<r, g, b>>

\* The same for the sizes whose last pixel's byte offset fits 16 bits.
FromRgbDataSmall ==
    (call.width * call.height * 3 < U16) => FromRgbDataCells

\* C20: the glyph index of a luminance L in 0..255 lies inside the ramp, is
\* the first glyph's for 0 and the last glyph's for 255, and is not below the
\* index of any smaller luminance.
PaletteIndexMonotone ==
    (call.fn = "palette_index" /\ ret # NoRet) =>
        /\ ret.value \in 0..(Len(PALETTE) - 1)
        /\ call.lum = 0 => ret.value = 0
        /\ call.lum = 255 => ret.value = Len(PALETTE) - 1
        /\ \A l \in 0..call.lum : palette_index(l) <= ret.value

\* The index of the brightest luminance has been computed: the last glyph.
BrightestIndexed ==
    /\ call.fn = "palette_index"
    /\ call.lum = 255
    /\ ret.status = "ok"
    /\ PALETTE[ret.value + 1] = 36

\* An Error message has been handed to the application's receive queue.
ErrorDelivered == \E i \in DOMAIN rx_from_ws : rx_from_ws[i] = "Error"

\* C21: a client whose connection ends is never left silent. Whichever way
\* the connection ended (a write failed, the stream yielded a Close message
\* or an error, or the stream ended), an Error message has been handed to the
\* application; and a failed connect leaves a System notice and no client.
ClientNeverSilent ==
    /\ (wtask = "failed" \/ rtask \in {"closed", "errored", "eof"}) =>
          ErrorDelivered
    /\ link = "failed" => notices = 1 /\ wtask = "none" /\ rtask = "none"

\* The same for the ways of ending other than the end of the stream.
ClientNotifiedUnlessEof ==
    /\ (wtask = "failed" \/ rtask \in {"closed", "errored"}) => ErrorDelivered
    /\ link = "failed" => notices = 1 /\ wtask = "none" /\ rtask = "none"

\* C22: get_frame does not block: it can return whenever the capture is
\* live, with None (0) only when nothing is queued and else with the oldest
\* queued frame, which it removes; so the frames are taken in the order they
\* were generated, none skipped, and the channel never holds more than
\* FrameCap frames.
GetFrameNonBlocking ==
    /\ [](/\ cap = "live" => ENABLED GetFrame
          /\ Len(frame_ch) <= FrameCap
          /\ \A i \in DOMAIN taken : taken[i] = i)
    /\ [][/\ taken' # taken =>
                /\ frame_ch # <<>>
                /\ got' = Head(frame_ch)
                /\ taken' = Append(taken, Head(frame_ch))
                /\ frame_ch' = Tail(frame_ch)
          /\ (got' # got /\ got' = 0) =>
                frame_ch = <<>> /\ UNCHANGED <<frame_ch, taken>>
          /\ (got' # got /\ got' # 0) => taken' # taken]_vars

\* get_frame has returned frames and then None, and the channel has filled
\* up again since.
NoneAfterFramesThenFull ==
    /\ cap = "live"
    /\ Len(taken) >= 2
    /\ got = 0
    /\ Len(frame_ch) = FrameCap

\* C29: once a WebcamCapture has been dropped its generator thread
\* eventually terminates, wherever it was (blocked in a send on the full
\* frame channel, sleeping, or anywhere else in its loop); the step that
\* observes the shutdown signal ends the thread, and a thread that has ended
\* produces no frame.
GeneratorTerminates ==
    /\ (cap = "dropped") ~> (gen = "done")
    /\ [][/\ (shutdown_ch = 1 /\ shutdown_ch' = 0) =>
                gen' = "done" /\ UNCHANGED <<frame_ch, frame_count>>
          /\ gen = "done" =>
                /\ gen' = "done"
                /\ frame_count' = frame_count
                /\ Len(frame_ch') <= Len(frame_ch)]_vars

\* The thread was blocked in a send on the full frame channel when the
\* capture was dropped, and has ended without ever looking at the signal.
EndedWhileBlockedOnFull ==
    /\ cap = "dropped"
    /\ gen = "done"
    /\ Len(frame_ch) = FrameCap
    /\ shutdown_ch = 1

\* The session's outbound flow runs, has lost nothing and has nothing left
\* to deliver, and its socket is open.
Delivered(c) ==
    /\ spc[c] = "wait"
    /\ ~lagged[c]
    /\ sock[c] = "open"
    /\ pending[c] = <<>>

\* recv_task of the connection has run the Join arm to its end.
JoinArmDone(c) == From(c, {"Join"}) # {} /\ rpc[c] \in {"wait", "ended"}

\* C23: a connection that has sent Join and has neither lagged nor lost its
\* socket is handed, once everything published to it is delivered, the Join
\* event with its own id and after it a UserList whose users include that id.
JoinerObservesJoin ==
    \A c \in Conns :
        (JoinArmDone(c) /\ Delivered(c)) =>
            \E i, j \in DOMAIN out[c] :
                /\ i < j
                /\ out[c][i].type = "Join" /\ out[c][i].id = c
                /\ out[c][j].type = "UserList"
                /\ \E u \in out[c][j].users : u.id = c

\* Connection 2 has joined while connection 1 was in the roster, and has been
\* handed everything published to it.
SecondJoinerServed ==
    /\ JoinArmDone(2) /\ Delivered(2)
    /\ 1 \in DOMAIN users
    /\ Len(out[2]) >= 3

\* The roster list a client holds: run_chat_client applies every UserList it
\* receives with App::update_users, which replaces the list, and does nothing
\* to the list on Join or Leave. The client starts with an empty list.
ClientUsers(c) ==
    LET lists == {i \in DOMAIN out[c] : out[c][i].type = "UserList"}
    IN  IF lists = {} THEN {}
        ELSE out[c][CHOOSE i \in lists : \A j \in lists : j <= i].users

\* No recv_task is inside the Join arm.
NoJoinUnderWay ==
    \A c \in Conns : rpc[c] \notin {"send_join", "read_users", "send_list"}

\* Some other participant's Leave has been published, and no Join after it.
LeftBefore(c) ==
    \E d \in Conns \ {c} : \E k \in From(d, {"Leave"}) :
        /\ From(d, {"Join"}) # {}
        /\ \A i \in DOMAIN log : i > k => log[i].type # "Join"

\* C24: once a participant has left, no Join has followed and a remaining
\* client has been delivered every published event, the roster list that
\* client holds equals the hub's roster.
ClientsConverge ==
    \A c \in Conns :
        (JoinArmDone(c) /\ Delivered(c) /\ NoJoinUnderWay /\ LeftBefore(c)) =>
            ClientUsers(c) = Values(users)

\* The UserList events published, by position in the log, and the ids a
\* snapshot holds.
Snapshots == {i \in DOMAIN log : log[i].type = "UserList"}
Ids(us) == {u.id : u \in us}

\* C25: while nobody has left, a UserList published later holds every id
\* that one published earlier holds, and once no Join is under way the last
\* UserList published equals the roster.
SnapshotsInRosterOrder ==
    (\A c \in Conns : removals[c] = 0) =>
        /\ \A i, j \in Snapshots :
              i < j => Ids(log[i].users) \subseteq Ids(log[j].users)
        /\ (NoJoinUnderWay /\ Snapshots # {}) =>
              log[CHOOSE i \in Snapshots : \A j \in Snapshots : j <= i].users
                  = Values(users)

\* C26: every Leave{id} event published is preceded by a published Join event
\* with that id; a connection that ends without having sent a Join publishes
\* no Leave.
LeaveAfterJoin ==
    \A c \in Conns : \A k \in From(c, {"Leave"}) :
        \E i \in From(c, {"Join"}) : i < k

\* C27: a Leave, UserList, ServerInfo or Error message read from a client is
\* ignored whatever the session's state: reading it publishes nothing and
\* changes neither the roster nor the cached name nor the position of the
\* handler and its flows.
OtherVariantsIgnored ==
    [][(msgs' = msgs + 1 /\ last'.type \in OtherKinds) =>
          /\ UNCHANGED <<users, username, log, log2, pending, lagged, snap,
                         out, removals>>
          /\ UNCHANGED <<phase, rpc, spc, sock>>]_vars

\* A Leave has just been read from a joined connection.
LeaveReadFromJoined ==
    /\ last.type = "Leave"
    /\ last.conn \in DOMAIN users
    /\ username[last.conn] # ""
    /\ phase[last.conn] = "running"

\* q begins with p.
Begins(q, p) == Len(q) >= Len(p) /\ SubSeq(q, 1, Len(p)) = p

\* C28: the first message written to a connection is ServerInfo and no other
\* is: nothing is written before it, and what is published for the
\* connection while ServerInfo is being sent stays queued, in order, for
\* send_task, which starts when the ServerInfo write has returned.
ServerInfoFirst ==
    /\ [](\A c \in Conns :
            /\ phase[c] \in {"idle", "info"} => out[c] = <<>>
            /\ \A i \in DOMAIN out[c] : (out[c][i] = ServerInfo) <=> (i = 1))
    /\ [][\A c \in Conns :
            (phase[c] = "info" /\ ~lagged'[c]) =>
                /\ Begins(pending'[c], pending[c])
                /\ (phase'[c] = "running" /\ sock'[c] = "open") =>
                      out'[c] = <<ServerInfo>> /\ spc'[c] = "wait"]_vars

\* An event is queued for a connection whose ServerInfo is not yet written.
QueuedDuringInfo ==
    \E c \in Conns : phase[c] = "info" /\ pending[c] # <<>>

====
